---- MODULE Spec2Model ----
(***************************************************************************)
(* The audio transport of narrative-director (src/src/media/io.rs): the    *)
(* Media handle used by the UI thread (the caller), the shared             *)
(* media_state, the mpsc channel of SenderMessages, and the worker thread  *)
(* spawned by spawn_media_ui_modifier that owns the audio streams and      *)
(* the playback widgets.  The navigation buttons and the time label the    *)
(* handlers also update are left out: nothing in Media reads them.         *)
(***************************************************************************)
EXTENDS Integers, Sequences, FiniteSets, TLC

\* ------------------------------------------------------------------ bounds
\* messages the channel may hold at once (the mpsc channel is unbounded): a
\* command that would send one more is not issued
MaxQueue == 1
\* seconds: the largest position passed to pause_at, the ticks after which a
\* recording session is no longer extended, the length of the longest clip
MaxSecs == 2

\* sample rate of the clips of the model, in samples per second
ClipRate == 2
\* the unsigned word in which output_stream_from multiplies (u32 in the
\* source, scaled to the integers TLC can hold)
Word == 2 ^ 8

\* bound: the configurations a device advertises
MaxConfigs == 2

\* bound: the characters of a text
MaxText == 6

\* bound: the digits entered in the Go To prompt
MaxDigits == 3
\* bound: the paragraphs of a text
MaxParagraphs == 3

Paths == {"part0.wav"}
NoPath == "None"
NoPos == -1

MediaStates == {"Playing", "Paused", "Recording", "StoppedPlaying", "StoppedRecording"}
Idle == {"StoppedPlaying", "StoppedRecording"}

\* what the host audio subsystem answers when a stream is set up
OutputOutcomes == {"ok", "err"}
InputOutcomes == {"ok", "err_create", "err_build", "panic"}

NoFile == [exists |-> FALSE, samples |-> 0, rate |-> ClipRate]
WavFile(n, r) == [exists |-> TRUE, samples |-> n, rate |-> r]
\* the clips on disk at the start: none, an empty one, one whose duration
\* rounds up to MaxSecs, one of MaxSecs exactly
InitFiles == {NoFile} \cup
             {WavFile(n, ClipRate) : n \in {0, MaxSecs * ClipRate - 1, MaxSecs * ClipRate}}

VARIABLES
    media_state,     \* Arc<RwLock<MediaStates>>
    chan,            \* the mpsc channel stream_updater -> msg_receiver
    audio_location,  \* Media::audio_location
    files,           \* the WAV files on disk, by path
    cpc,             \* position of the caller thread
    c_state,         \* current_state read by Media::play
    load_stream,     \* the stream output_stream_from returned to Media::load
    load_result,     \* the length output_stream_from returned to Media::load, or NoPos
    wpc,             \* position of the worker thread
    w_cur,           \* the handler's current_pos_secs
    w_total,         \* the handler's total_secs
    w_path,          \* the handler's audio_file_path
    stream,          \* the stream the handler holds: none, play or rec
    cur,             \* progress_bar.value()
    total,           \* progress_bar.maximum()
    status_bar,      \* the notification shown: NoPath or the recorded path
    play_label,      \* play_button label
    play_active, stop_active, record_active, open_active,
    op,              \* history: the last command of the caller
    sess,            \* history: the session the worker started last
    wfail,           \* history: why the last handler failed
    call,            \* a call of a device or file function: its name and arguments
    ret,             \* what the call returned, NoRet before it has returned
    viewer,          \* ParagraphViewer: its fields and its widgets
    session,         \* MainApplication::session: NoSession or the Session
    player,          \* CpalAudioPlayer: its fields and the stream it holds
    last,            \* history: the last call made on the player and its result
    projects,        \* the session files under <data dir>/narrative_director/projects
    nav              \* history: the last request made of the viewer

widgets == <<cur, total, status_bar, play_label, play_active, stop_active,
             record_active, open_active>>
transport == <<media_state, chan, audio_location, files, cpc, c_state, load_stream,
               load_result, wpc, w_cur, w_total, w_path, stream, widgets, op, sess,
               wfail>>
\* the application outside the transport
desk == <<viewer, session, player, last, projects, nav>>
vars == <<transport, call, ret, desk>>

\* ------------------------------------------------------------- messages
Msg(t, p, n, a) == [type |-> t, path |-> p, n |-> n, after |-> a]
LoadMsg(len) == Msg("Load", NoPath, len, NoPos)
ClearMsg == Msg("Clear", NoPath, 0, NoPos)
\* after: history, the position of the pause_at the caller issued just before
PlayMsg(path, a) == Msg("Play", path, 0, a)
RecordMsg(path) == Msg("Record", path, 0, NoPos)
PauseAtMsg(pos) == Msg("PauseAt", NoPath, pos, NoPos)
StopIfPausedMsg == Msg("StopIfPaused", NoPath, 0, NoPos)

\* --------------------------------------------------------- pure functions
\* mutant: the sample count is taken for the duration
duration_in_samples(num_samples, sample_rate) == num_samples

\* (num_samples as f64 / sample_rate as f64).round() as usize
duration_secs(num_samples, sample_rate) ==
    (2 * num_samples + sample_rate) \div (2 * sample_rate)

\* (starting_pos_secs as u32) * sample_rate
samples_to_skip(starting_pos_secs, sample_rate) ==
    ((starting_pos_secs % Word) * sample_rate) % Word

Ok(len) == [ok |-> TRUE, len |-> len, err |-> "none"]
Err(e) == [ok |-> FALSE, len |-> 0, err |-> e]

output_stream_from(dev, starting_pos_secs, file) ==
    IF ~file.exists THEN Err("NoClipLoaded")
    ELSE IF samples_to_skip(starting_pos_secs, file.rate) > file.samples
         THEN Err("StartBeyondEnd")
    ELSE IF dev # "ok" THEN Err("DeviceUnavailable")
    ELSE Ok(duration_secs(file.samples, file.rate))

\* thread 'main' panicked: expect, unwrap, assert!, panic!, overflow check
Panic == [ok |-> FALSE, err |-> "panic"]

\* ------------------------------------------------------ the input device
\* the [u32; 6] both sample rate listings check against
SUPPORTED_SAMPLE_RATES == <<16000, 32000, 44100, 48000, 88200, 96000>>

\* what supported_input_configs() yields, in the order the host enumerates:
\* SupportedStreamConfigRange
RateRanges == {<<8000, 48000>>, <<44100, 44100>>, <<44100, 96000>>, <<192000, 192000>>}
ConfigRanges ==
    [channels : {1, 2}, range : RateRanges, fmt : {"I16", "F32"}]
Devices == UNION {[1..n -> ConfigRanges] : n \in 0..MaxConfigs}

in_range(config, sample_rate) ==
    sample_rate >= config.range[1] /\ sample_rate <= config.range[2]

\* Iterator::find over the indices of the entries that pass the test: the
\* first of them, 0 for None
find(hits) ==
    IF hits = {} THEN 0 ELSE CHOOSE i \in hits : \A j \in hits : i <= j

\* SupportedStreamConfigRange::with_sample_rate asserts min <= rate <= max;
\* from: history, the index of the entry the configuration was made from
with_sample_rate(configs, i, sample_rate) ==
    IF in_range(configs[i], sample_rate)
    THEN [ok |-> TRUE, err |-> "none", channels |-> configs[i].channels,
          sample_rate |-> sample_rate, fmt |-> configs[i].fmt, from |-> i]
    ELSE Panic

\* AudioInput::config on a device that advertises configs
config(configs, sample_rate, channels) ==
    LET i == find({k \in DOMAIN configs : /\ configs[k].channels = channels
                                             /\ in_range(configs[k], sample_rate)}) IN
    IF i = 0 THEN Panic ELSE with_sample_rate(configs, i, sample_rate)

device_config_from_sample_and_channels(configs, sample_rate, num_channels) ==
    LET i == find({k \in DOMAIN configs : configs[k].channels = num_channels}) IN
    IF i = 0 THEN Panic ELSE with_sample_rate(configs, i, sample_rate)

\* supported_configs.for_each: every candidate inside the entry's range is pushed
RECURSIVE found_sample_rates(_)
found_sample_rates(configs) ==
    IF configs = <<>> THEN <<>>
    ELSE SelectSeq(SUPPORTED_SAMPLE_RATES, LAMBDA r : in_range(Head(configs), r))
         \o found_sample_rates(Tail(configs))

RECURSIVE insert_sorted(_, _)
insert_sorted(x, s) ==
    IF s = <<>> THEN <<x>>
    ELSE IF x <= Head(s) THEN <<x>> \o s
    ELSE <<Head(s)>> \o insert_sorted(x, Tail(s))

RECURSIVE sort_unstable(_)
sort_unstable(s) ==
    IF s = <<>> THEN <<>> ELSE insert_sorted(Head(s), sort_unstable(Tail(s)))

\* mutant: equal neighbours are kept
dedup_keeps(s) == s

\* Vec::dedup: of consecutive equal elements only the first is kept
RECURSIVE dedup(_)
dedup(s) ==
    IF Len(s) <= 1 THEN s
    ELSE IF s[1] = s[2] THEN dedup(Tail(s))
    ELSE <<s[1]>> \o dedup(Tail(s))

\* AudioInput::sample_rates, CpalAudioRecorder::get_sample_rates_for_device
sample_rates(configs) == dedup(sort_unstable(found_sample_rates(configs)))

\* supported_configs.for_each: the channel count of every entry is pushed
found_channels(configs) == [i \in DOMAIN configs |-> configs[i].channels]

\* AudioInput::channels
AudioInput_channels(configs) == dedup(sort_unstable(found_channels(configs)))

\* ------------------------------------------------------------ the WAV spec
\* cpal::SampleFormat: the three input_stream_from records, and one it does not
SampleFormats == {"I16", "U16", "F32", "I32"}

\* cpal::SampleFormat::sample_size, in bytes
sample_size(format) == IF format \in {"I16", "U16"} THEN 2 ELSE 4

\* mutant: unsigned samples are declared as floats
sample_format_u16_float(format) ==
    CASE format = "I16" -> "Int"
      [] format \in {"U16", "F32"} -> "Float"
      [] OTHER -> "panic"

sample_format(format) ==
    CASE format \in {"U16", "I16"} -> "Int"
      [] format = "F32" -> "Float"
      [] OTHER -> "panic"

wav_spec_from_config(c) ==
    IF sample_format(c.fmt) = "panic" THEN Panic
    ELSE [ok |-> TRUE, err |-> "none", channels |-> c.channels,
          sample_rate |-> c.sample_rate,
          bits_per_sample |-> sample_size(c.fmt) * 8,
          sample_format |-> sample_format(c.fmt)]

\* the arms of output_stream_from's match that build a stream
playback_accepts(bits_per_sample, format) ==
    <<bits_per_sample, format>> \in {<<32, "Float">>, <<16, "Int">>}

\* ------------------------------------------------- the start of playback
\* a u32 product that does not fit: a build with overflow checks panics, a
\* build without them wraps
mul_overflows(starting_pos_secs, sample_rate) ==
    (starting_pos_secs % Word) * sample_rate >= Word

\* output_stream_from as the build computes it; seek: the sample the decoder
\* was moved to, NoPos when seek was not reached
output_stream_from_built(build, dev, starting_pos_secs, file) ==
    IF file.exists /\ build = "debug" /\ mul_overflows(starting_pos_secs, file.rate)
    THEN [ok |-> FALSE, err |-> "panic", seek |-> NoPos]
    ELSE LET r == output_stream_from(dev, starting_pos_secs, file) IN
         [ok |-> r.ok, err |-> r.err,
          seek |-> IF file.exists /\ r.err # "StartBeyondEnd"
                   THEN samples_to_skip(starting_pos_secs, file.rate) ELSE NoPos]

\* ----------------------------------------------------------------- text
\* a text is the sequence of its characters
LangDelimiters == {".", "?", "!"}
Chars == {"a"} \cup LangDelimiters
Texts == UNION {[1..n -> Chars] : n \in 0..MaxText}

\* str::split_inclusive(delimiters): every piece but the last ends with the
\* delimiter that closed it; piece is what was read since the last delimiter
RECURSIVE split_after(_, _, _)
split_after(piece, text, delimiters) ==
    IF text = <<>> THEN (IF piece = <<>> THEN <<>> ELSE <<piece>>)
    ELSE IF Head(text) \in delimiters
         THEN <<Append(piece, Head(text))>> \o split_after(<<>>, Tail(text), delimiters)
    ELSE split_after(Append(piece, Head(text)), Tail(text), delimiters)

\* mutant: the delimiters are dropped from the pieces
split_exclusive(text, delimiters) ==
    split_after(<<>>, SelectSeq(text, LAMBDA c : c \notin delimiters), delimiters)

split_inclusive(text, delimiters) == split_after(<<>>, text, delimiters)

\* [T]::concat, Vec<String>::join("")
RECURSIVE concat(_)
concat(pieces) == IF pieces = <<>> THEN <<>> ELSE Head(pieces) \o concat(Tail(pieces))

\* slice::chunks(amount).map(concat), for amount > 0
RECURSIVE chunks_concat(_, _)
chunks_concat(pieces, amount) ==
    IF pieces = <<>> THEN <<>>
    ELSE IF Len(pieces) <= amount THEN <<concat(pieces)>>
    ELSE <<concat(SubSeq(pieces, 1, amount))>>
         \o chunks_concat(SubSeq(pieces, amount + 1, Len(pieces)), amount)

\* ParagraphRetriever::new: a paragraph consists of four sentences
num_sentences == 4

\* ParagraphRetriever::load_chunks: the paragraphs it stores
load_chunks(text) == chunks_concat(split_inclusive(text, LangDelimiters), num_sentences)

\* EnglishParagraphRetriever::load_chunks on a new retriever: the loop over the
\* bytes read, then the incomplete paragraph
RECURSIVE english_load_chunks(_, _, _, _)
english_load_chunks(paragraphs, current_paragraph, sentence_count, text) ==
    IF text = <<>>
    THEN (IF current_paragraph # <<>> THEN Append(paragraphs, current_paragraph)
          ELSE paragraphs)
    ELSE LET read == Append(current_paragraph, Head(text))
             count == sentence_count + (IF Head(text) \in LangDelimiters THEN 1 ELSE 0)
         IN IF count = 4
            THEN english_load_chunks(Append(paragraphs, read), <<>>, 0, Tail(text))
            ELSE english_load_chunks(paragraphs, read, count, Tail(text))

\* get_chunk
Some(x) == [some |-> TRUE, value |-> x]
None == [some |-> FALSE]
get_chunk(paragraphs, chunk_num) ==
    IF chunk_num >= Len(paragraphs) THEN None ELSE Some(paragraphs[chunk_num + 1])

\* ------------------------------------------------------------ the clock
\* the decimal digits of n, most significant first
RECURSIVE digits(_)
digits(n) == IF n < 10 THEN <<n>> ELSE Append(digits(n \div 10), n % 10)

\* format!("{:02}"): padded with a zero to two digits, never cut
pad2(n) == IF n < 10 THEN <<0, n>> ELSE digits(n)

\* format!("{hours:02}:{minutes:02}:{seconds:02}")
hh_mm_ss(hours, minutes, seconds) ==
    pad2(hours) \o <<":">> \o pad2(minutes) \o <<":">> \o pad2(seconds)

\* media/io.rs: from seconds
to_hh_mm_ss_str(secs) ==
    LET seconds == secs % 60
        minutes == (seconds \div 60) % 60
        hours == minutes \div 60
    IN hh_mm_ss(hours, minutes, seconds)

\* audio/ui.rs and main.rs: from milliseconds
to_hh_mm_ss_str_ms(ms) ==
    LET seconds == ms \div 1000
        minutes == seconds \div 60
        hours == minutes \div 60
    IN hh_mm_ss(hours, minutes, seconds)

\* ------------------------------------------------------- the Go To prompt
\* what the IntInput holds: an optional sign and decimal digits
Entries == [sign : {"", "+", "-"},
            digits : UNION {[1..n -> {0, 2, 9}] : n \in 0..MaxDigits}]

RECURSIVE decimal(_)
decimal(ds) == IF ds = <<>> THEN 0 ELSE 10 * decimal(SubSeq(ds, 1, Len(ds) - 1)) + ds[Len(ds)]

\* str::parse::<usize>().unwrap_or(0): no digits, a minus sign or a number that
\* does not fit the word is an error
parse_or_zero(entry) ==
    IF entry.sign = "-" \/ entry.digits = <<>> \/ decimal(entry.digits) >= Word
    THEN 0 ELSE decimal(entry.digits)

\* mutant: only the upper end is enforced
clamp_above(x, lo, hi) == IF x > hi THEN hi ELSE x

\* Ord::clamp
clamp(x, lo, hi) == IF x < lo THEN lo ELSE IF x > hi THEN hi ELSE x

\* GotoPrompt::get_paragraph_num once the window is hidden; closed_by: the
\* Go To button deactivates itself, Cancel and closing the window do not
get_paragraph_num(closed_by, entry, max_num_paragraphs) ==
    IF closed_by # "goto" THEN None
    ELSE IF max_num_paragraphs = 0 THEN None
    ELSE Some(clamp(parse_or_zero(entry), 1, max_num_paragraphs))

\* ------------------------------------------------------------ session files
\* file stems of text files, which are also the names of project folders
ProjectNames == {"book", "tales"}

\* project directories: the default <audio dir>/<stem> of Session::new and
\* directories typed into Preferences
ProjectDirs == {<<root, name>> : root \in {"Music", "mnt"}, name \in ProjectNames}

\* the sentences per paragraph a session can ask for
GatheringAmounts == {1, 2, num_sentences}

Sessions == [paragraph_num : 0..MaxParagraphs, project_directory : ProjectDirs,
             gathering_amount : GatheringAmounts]

\* Session::new(text_file_loc)
Session_new(stem) ==
    [paragraph_num |-> 0, project_directory |-> <<"Music", stem>>,
     gathering_amount |-> num_sentences]

\* the getters MainApplication calls
project_directory(s) == s.project_directory
gathering_amount(s) == s.gathering_amount
gathering_delimiters(s) == LangDelimiters

\* get_session_path_from_textfile: <projects>/<file stem>/session.json, named
\* here by its folder
get_session_path_from_textfile(stem) == stem

\* Session::get_session_path: <projects>/<last component of the project
\* directory>/session.json
get_session_path(s) == s.project_directory[Len(s.project_directory)]

\* serde_json::to_string / from_str of a Session
to_string(s) ==
    <<[key |-> "paragraph_num", value |-> <<s.paragraph_num>>],
      [key |-> "project_directory", value |-> s.project_directory],
      [key |-> "gathering_amount", value |-> <<s.gathering_amount>>]>>

field(json, key) == (CHOOSE i \in 1..Len(json) : json[i].key = key)

from_str(json) ==
    [paragraph_num |-> json[field(json, "paragraph_num")].value[1],
     project_directory |-> json[field(json, "project_directory")].value,
     gathering_amount |-> json[field(json, "gathering_amount")].value[1]]

NoJson == <<>>

\* the session files under <projects> before the call: none, or the one an
\* earlier run left for that project
Disks == [ProjectNames -> {"absent", "earlier"}]
disk_of(d) == [n \in ProjectNames |->
                 IF d[n] = "earlier" THEN to_string(Session_new(n)) ELSE NoJson]

\* Session::save
save(s, disk) == [disk EXCEPT ![get_session_path(s)] = to_string(s)]

\* Session::load
load(stem, disk) ==
    IF disk[get_session_path_from_textfile(stem)] = NoJson THEN None
    ELSE Some(from_str(disk[get_session_path_from_textfile(stem)]))

\* ------------------------------------------------------- ParagraphViewer
\* ParagraphViewer::new with the widgets as create_widget_layout makes them;
\* text: the buffer of paragraph_view, label: the progress counter's label
ViewerNew ==
    [paragraphs |-> <<>>, paragraph_num |-> 0, text |-> <<>>,
     next_active |-> FALSE, prev_active |-> FALSE,
     label |-> <<0, 0>>, current_pos |-> 0, total_elements |-> 0]

\* mutant: the counter is taken as 0-based
set_current_as_given(v, pos) == [v EXCEPT !.current_pos = pos]

\* Counter::set_current
set_current(v, pos) == [v EXCEPT !.current_pos = pos + 1]

\* Counter::set_total
set_total(v, n) == [v EXCEPT !.total_elements = n]

\* Counter::update
update(v) ==
    IF v.current_pos > v.total_elements THEN v
    ELSE [v EXCEPT !.label = <<v.current_pos, v.total_elements>>]

\* Counter::at_beginning, Counter::at_end
at_beginning(v) == v.current_pos = 0 \/ v.current_pos = 1
at_end(v) == v.current_pos = v.total_elements

\* ParagraphViewer::toggle_nav_buttons
toggle_nav_buttons(v) ==
    [v EXCEPT !.prev_active = ~at_beginning(v), !.next_active = ~at_end(v)]

\* slice::get
get(xs, index) == IF index < Len(xs) THEN Some(xs[index + 1]) ELSE None

\* the Some arm of the three show_ functions
set_text(v) ==
    toggle_nav_buttons(update(set_current(
        [v EXCEPT !.text = get(v.paragraphs, v.paragraph_num).value],
        v.paragraph_num)))

\* ParagraphViewer::load_paragraphs on the content of the text file
load_paragraphs(v, text, delimiters, amount) ==
    LET ps == chunks_concat(split_inclusive(text, delimiters), amount) IN
    update(set_total(set_current([v EXCEPT !.paragraphs = ps], 0), Len(ps)))

\* ParagraphViewer::show_next_paragraph
show_next_paragraph(v) ==
    LET v1 == [v EXCEPT !.paragraph_num = @ + 1] IN
    IF get(v1.paragraphs, v1.paragraph_num).some THEN set_text(v1) ELSE v

\* ParagraphViewer::show_previous_paragraph
show_previous_paragraph(v) ==
    IF v.paragraph_num = 0 THEN v
    ELSE LET v1 == [v EXCEPT !.paragraph_num = @ - 1] IN
         IF get(v1.paragraphs, v1.paragraph_num).some THEN set_text(v1) ELSE v

\* mutant: the old paragraph number is not put back
show_paragraph_at_unrestored(v, paragraph_num) ==
    LET v1 == [v EXCEPT !.paragraph_num = paragraph_num] IN
    IF get(v1.paragraphs, v1.paragraph_num).some THEN set_text(v1) ELSE v1

\* ParagraphViewer::show_paragraph_at
show_paragraph_at(v, paragraph_num) ==
    LET v1 == [v EXCEPT !.paragraph_num = paragraph_num] IN
    IF get(v1.paragraphs, v1.paragraph_num).some THEN set_text(v1) ELSE v

\* ParagraphViewer::reload_text_with
reload_text_with(v, delimiters, amount) ==
    LET ps == chunks_concat(split_inclusive(concat(v.paragraphs), delimiters), amount) IN
    IF ps = v.paragraphs THEN v
    ELSE show_paragraph_at(
             update(set_total(set_current([v EXCEPT !.paragraphs = ps], 0), Len(ps))), 0)

\* text files: n sentences
RECURSIVE sentences(_)
sentences(n) == IF n = 0 THEN <<>> ELSE <<"a", ".">> \o sentences(n - 1)
NavTexts == {sentences(n) : n \in 0..MaxParagraphs}

\* mutant: the clip is named by the 1-based number the counter shows
part_name_one_based(paragraph_num) == <<"part">> \o digits(paragraph_num + 1) \o <<".wav">>

\* format!("part{}.wav", paragraph_num)
part_name(paragraph_num) == <<"part">> \o digits(paragraph_num) \o <<".wav">>

\* Path::join
join(dir, name) == Append(dir, name)

\* ------------------------------------------------------- CpalAudioPlayer
\* a u32 is held as the integer with the same 32 bits read as two's
\* complement: a negative n stands for 2^32 + n

\* a < b as the u32 comparison
below(a, b) == IF (a < 0) = (b < 0) THEN a < b ELSE b < 0

PlayerClips == {NoFile} \cup {WavFile(n, ClipRate) : n \in {ClipRate, MaxSecs * ClipRate}}
\* positions in milliseconds, every half second up to past the longest clip
PositionsMs == {500 * k : k \in 0..(2 * MaxSecs + 1)}

\* output_stream_from of the player: (Stream, duration_ms); from: the sample
\* the decoder was moved to
player_output_stream_from(dev, starting_pos_ms, file) ==
    IF ~file.exists THEN [ok |-> FALSE, err |-> "panic"]
    ELSE IF (starting_pos_ms \div 1000) * file.rate > file.samples
         THEN [ok |-> FALSE, err |-> "panic"]
    ELSE IF dev = "build_fails" THEN [ok |-> FALSE, err |-> "panic"]
    ELSE [ok |-> TRUE, err |-> "none",
          from |-> (starting_pos_ms \div 1000) * file.rate,
          duration_ms |-> duration_secs(file.samples, file.rate) * 1000]

\* CpalAudioPlayer::new; stream_from, stream_total, stream_paused: the stream
\* held, by the sample it started at, the duration of the clip it reads and
\* whether it is paused
PlayerNew(build) ==
    [output_stream |-> "none", output_duration_ms |-> 0, output_paused_pos_ms |-> 0,
     stream_from |-> NoPos, stream_total |-> 0, stream_paused |-> FALSE,
     build |-> build, panicked |-> FALSE]

Panicked(p, why) == [p |-> [p EXCEPT !.panicked = TRUE], r |-> [ok |-> FALSE, err |-> why]]
Returns(p, v) == [p |-> p, r |-> [ok |-> TRUE, err |-> "none", value |-> v]]
Fails(p, e) == [p |-> p, r |-> [ok |-> FALSE, err |-> e]]

\* a - b on u32: the debug build panics on underflow, the release build wraps
sub_u32(p, a, b) ==
    IF below(a, b) /\ p.build = "debug" THEN Panicked(p, "underflow")
    ELSE Returns(p, a - b)

\* mutant: the paused position survives a stop
stop_keeps_position(p) ==
    [p EXCEPT !.output_duration_ms = 0, !.output_stream = "none",
              !.stream_from = NoPos, !.stream_total = 0, !.stream_paused = FALSE]

\* CpalAudioPlayer::stop
stop(p) ==
    [p EXCEPT !.output_paused_pos_ms = 0, !.output_duration_ms = 0,
              !.output_stream = "none", !.stream_from = NoPos, !.stream_total = 0,
              !.stream_paused = FALSE]

\* CpalAudioPlayer::play
play(p, dev, file) ==
    LET s == player_output_stream_from(dev, 0, file)
        p1 == IF p.output_stream = "none" /\ s.ok
              THEN [p EXCEPT !.output_stream = "open", !.output_duration_ms = s.duration_ms,
                             !.stream_from = s.from, !.stream_total = s.duration_ms]
              ELSE p
        p2 == [p1 EXCEPT !.stream_paused = FALSE]
    IN  IF p.output_stream = "none" /\ ~s.ok THEN Panicked(p, "panic")
        ELSE IF dev = "play_fails" THEN Fails(p1, "PlayStreamError")
        ELSE sub_u32(p2, p2.output_duration_ms, p2.output_paused_pos_ms)

\* CpalAudioPlayer::play_at
play_at(p, dev, file, audio_pos_ms) ==
    LET s == player_output_stream_from(dev, audio_pos_ms, file)
        p0 == stop(p)
        d == IF s.ok THEN sub_u32(p0, s.duration_ms, audio_pos_ms) ELSE Panicked(p0, "panic")
        p1 == [d.p EXCEPT !.output_stream = "open", !.output_duration_ms = d.r.value,
                          !.stream_from = s.from, !.stream_total = s.duration_ms]
    IN  IF ~d.r.ok THEN d
        ELSE IF dev = "play_fails" THEN Fails(p1, "PlayStreamError")
        ELSE Returns(p1, p1.output_duration_ms)

\* CpalAudioPlayer::pause
pause(p, dev, paused_loc_ms) ==
    IF p.output_stream = "none" THEN Returns(p, 0)
    ELSE IF dev = "pause_fails" THEN Fails(p, "PauseStreamError")
    ELSE Returns([p EXCEPT !.output_paused_pos_ms = paused_loc_ms,
                           !.stream_paused = TRUE], 0)

\* ---------------------------------------------------------------- history
NoOp == [name |-> "none", pre |-> "StoppedPlaying", arg |-> NoPos]
Did(name, pre, arg) == [name |-> name, pre |-> pre, arg |-> arg]
NoSess == [kind |-> "none", start |-> 0, total |-> 0, emitted |-> <<>>,
           opened |-> FALSE, done |-> FALSE, undisturbed |-> FALSE,
           cancelled |-> FALSE, after |-> NoPos]
\* the last command was a play() that asked for a new playback session
quiet == op.name = "play" /\ op.pre # "Playing"
playing_now == stream = "play" /\ wpc \in {"play_check", "play_tick"}
recording_now == stream = "rec" /\ wpc \in {"rec_check", "rec_tick"}
\* the session's history is kept until the first command after its end
Disturb(cancels) ==
    IF sess.done \/ ~sess.opened THEN NoSess
    ELSE [sess EXCEPT !.undisturbed = FALSE,
                      !.cancelled = @ \/ (cancels /\ (playing_now \/ recording_now))]

NoCall == [fn |-> "none"]
NoRet == [ok |-> FALSE, err |-> "pending"]

\* Media::new and the widgets as MainApplication::new builds them
MediaNew ==
    /\ media_state = "StoppedPlaying"
    /\ chan = <<>>
    /\ audio_location = NoPath
    /\ files \in [Paths -> InitFiles]
    /\ cpc = "ready"
    /\ c_state = "StoppedPlaying"
    /\ load_stream = FALSE
    /\ load_result = NoPos
    /\ wpc = "recv"
    /\ w_cur = 0
    /\ w_total = 0
    /\ w_path = NoPath
    /\ stream = "none"
    /\ cur = 0
    /\ total = 0
    /\ status_bar = NoPath
    /\ play_label = "Play"
    /\ play_active = FALSE
    /\ stop_active = FALSE
    /\ record_active = FALSE
    /\ open_active = TRUE
    /\ op = NoOp
    /\ sess = NoSess
    /\ wfail = "none"

NoSession == None
NoLast == [fn |-> "none"]
NoNav == [fn |-> "none"]
NoProjects == [n \in ProjectNames |-> NoJson]
DeskNew ==
    /\ viewer = ViewerNew /\ session = NoSession
    /\ player = PlayerNew("debug") /\ last = NoLast
    /\ projects = NoProjects /\ nav = NoNav

Init == MediaNew /\ call = NoCall /\ ret = NoRet /\ DeskNew

\* ------------------------------------------------------------ the caller
\* stream_updater.send(m).expect(..): fails once the worker has dropped the receiver
Send(m) ==
    IF wpc = "panicked"
    THEN chan' = chan /\ cpc' = "panicked"
    ELSE chan' = Append(chan, m) /\ cpc' = "ready"

\* Media::load up to the return of output_stream_from
C_LoadOpen(path, dev) ==
    /\ cpc = "ready"
    /\ Len(chan) < MaxQueue
    /\ audio_location' = path
    /\ LET r == output_stream_from(dev, 0, files[path]) IN
        /\ load_stream' = r.ok
        /\ load_result' = IF r.ok THEN r.len ELSE NoPos
    /\ cpc' = "load"
    /\ op' = Did("load", media_state, NoPos)
    /\ sess' = Disturb(FALSE)
    /\ UNCHANGED <<media_state, chan, files, c_state, wpc, w_cur, w_total, w_path,
                   stream, widgets, wfail>>
    /\ UNCHANGED <<call, ret, desk>>

\* Media::load: the match arms; the stream is dropped when the match ends
C_LoadSend ==
    /\ cpc = "load"
    /\ Send(IF load_result # NoPos THEN LoadMsg(load_result) ELSE ClearMsg)
    /\ load_stream' = FALSE
    /\ load_result' = NoPos
    /\ UNCHANGED <<media_state, audio_location, files, c_state, wpc, w_cur, w_total,
                   w_path, stream, widgets, op, sess, wfail>>
    /\ UNCHANGED <<call, ret, desk>>

\* Media::play: the read of media_state
C_PlayRead ==
    /\ cpc = "ready"
    /\ media_state = "Playing" \/ Len(chan) < MaxQueue
    /\ c_state' = media_state
    /\ cpc' = "play"
    /\ UNCHANGED <<media_state, chan, audio_location, files, load_stream, load_result,
                   wpc, w_cur, w_total, w_path, stream, widgets, op, sess, wfail>>
    /\ UNCHANGED <<call, ret, desk>>

\* Media::play: the write of media_state and the send
\* mutant: play() never pauses, it always asks for a new session
play_pauses_never == FALSE

\* Media::play: if current_state == MediaStates::Playing
play_pauses == c_state = "Playing"

C_PlayWrite ==
    /\ cpc = "play"
    /\ op' = Did("play", c_state, NoPos)
    /\ c_state' = "StoppedPlaying"
    /\ IF play_pauses
       THEN /\ media_state' = "Paused"
            /\ cpc' = "ready"
            /\ chan' = chan
            /\ sess' = Disturb(TRUE)
       ELSE /\ media_state' = "Playing"
            /\ sess' = Disturb(FALSE)
            /\ IF audio_location = NoPath
               THEN chan' = chan /\ cpc' = "panicked"
               ELSE Send(PlayMsg(audio_location,
                                 IF op.name = "pause_at" THEN op.arg ELSE NoPos))
    /\ UNCHANGED <<audio_location, files, load_stream, load_result, wpc, w_cur,
                   w_total, w_path, stream, widgets, wfail>>
    /\ UNCHANGED <<call, ret, desk>>

\* mutant: pause_at returns early unless a playback session is playing
pause_at_returns_unless_playing == media_state # "Playing"

\* the early return of Media::pause_at
pause_at_returns == media_state = "Recording"

\* Media::pause_at (the worker never writes Recording, so the read and the
\* write of media_state are one step)
C_PauseAt(current_pos_secs) ==
    /\ cpc = "ready"
    /\ pause_at_returns \/ Len(chan) < MaxQueue
    /\ IF pause_at_returns
       THEN /\ op' = Did("pause_at", media_state, NoPos)
            /\ sess' = Disturb(FALSE)
            /\ UNCHANGED <<media_state, chan, cpc>>
       ELSE /\ op' = Did("pause_at", media_state, current_pos_secs)
            /\ sess' = Disturb(media_state = "Playing")
            /\ media_state' = "Paused"
            /\ Send(PauseAtMsg(current_pos_secs))
    /\ UNCHANGED <<audio_location, files, c_state, load_stream, load_result, wpc,
                   w_cur, w_total, w_path, stream, widgets, wfail>>
    /\ UNCHANGED <<call, ret, desk>>

\* Media::record
C_Record ==
    /\ cpc = "ready"
    /\ Len(chan) < MaxQueue
    /\ op' = Did("record", media_state, NoPos)
    /\ sess' = Disturb(FALSE)
    /\ media_state' = "Recording"
    /\ IF audio_location = NoPath
       THEN chan' = chan /\ cpc' = "panicked"
       ELSE Send(RecordMsg(audio_location))
    /\ UNCHANGED <<audio_location, files, c_state, load_stream, load_result, wpc,
                   w_cur, w_total, w_path, stream, widgets, wfail>>
    /\ UNCHANGED <<call, ret, desk>>

\* mutant: the Paused branch of Media::stop taken as the final else
stop_effect_else_paused(current_state) ==
    CASE current_state = "Playing" -> [state |-> "StoppedPlaying", send |-> FALSE]
      [] current_state = "Recording" -> [state |-> "StoppedRecording", send |-> FALSE]
      [] OTHER -> [state |-> "StoppedPlaying", send |-> TRUE]

\* the branches of Media::stop: the state written and whether StopIfPaused is sent
stop_effect(current_state) ==
    CASE current_state = "Playing" -> [state |-> "StoppedPlaying", send |-> FALSE]
      [] current_state = "Recording" -> [state |-> "StoppedRecording", send |-> FALSE]
      [] current_state = "Paused" -> [state |-> "StoppedPlaying", send |-> TRUE]
      [] OTHER -> [state |-> current_state, send |-> FALSE]

\* Media::stop (a write by the worker between its read and its write would
\* write StoppedPlaying over Playing, which stop writes as well)
C_Stop ==
    /\ cpc = "ready"
    /\ stop_effect(media_state).send => Len(chan) < MaxQueue
    /\ op' = Did("stop", media_state, NoPos)
    /\ sess' = Disturb(media_state \in {"Playing", "Recording"})
    /\ LET e == stop_effect(media_state) IN
        /\ media_state' = e.state
        /\ IF e.send THEN Send(StopIfPausedMsg) ELSE UNCHANGED <<chan, cpc>>
    /\ UNCHANGED <<audio_location, files, c_state, load_stream, load_result, wpc,
                   w_cur, w_total, w_path, stream, widgets, wfail>>
    /\ UNCHANGED <<call, ret, desk>>

Caller ==
    \/ C_PlayRead
    \/ C_PlayWrite
    \/ C_Stop
    \/ C_Record
    \/ C_LoadSend
    \/ \E p \in 0..MaxSecs : C_PauseAt(p)
    \/ \E p \in Paths, d \in OutputOutcomes : C_LoadOpen(p, d)

\* ------------------------------------------------------------ the worker
\* mutant: a handler is started for a message as soon as it is queued, also
\* while the handler of an earlier message is still in its loop
Receives_while_busy(type) == chan # <<>> /\ Head(chan).type = type

\* for received_msg in msg_receiver: the next message is taken when the
\* handler of the previous one has returned
Receives(type) == wpc = "recv" /\ chan # <<>> /\ Head(chan).type = type

\* mutant: the Play handler resumes from the slider only while the state
\* still reads Paused, and starts at the beginning of the clip otherwise
play_start_pos_if_paused == IF media_state = "Paused" THEN cur ELSE 0

\* playback_widget.current() as the Play handler reads it
play_start_pos == cur

\* SenderMessages::Play: from the receipt to the entry of the loop
W_Play(dev) ==
    /\ Receives("Play")
    /\ chan' = Tail(chan)
    /\ play_label' = "Pause"
    /\ record_active' = FALSE
    /\ stop_active' = TRUE
    /\ open_active' = FALSE
    /\ LET r == output_stream_from(dev, play_start_pos, files[Head(chan).path]) IN
        /\ IF r.ok
           THEN /\ wpc' = "play_check"
                /\ stream' = "play"
                /\ w_cur' = play_start_pos
                /\ w_total' = total
                /\ w_path' = Head(chan).path
                /\ wfail' = "none"
           ELSE \* .expect("Could not start playing audio.")
                /\ wpc' = "panicked"
                /\ wfail' = r.err
                /\ UNCHANGED <<stream, w_cur, w_total, w_path>>
        /\ sess' = [kind |-> "play", start |-> play_start_pos, total |-> total,
                    emitted |-> <<>>, opened |-> r.ok, done |-> FALSE,
                    undisturbed |-> quiet /\ Tail(chan) = <<>>,
                    cancelled |-> FALSE, after |-> Head(chan).after]
    /\ UNCHANGED <<media_state, audio_location, files, cpc, c_state, load_stream,
                   load_result, cur, total, status_bar, play_active, op>>
    /\ UNCHANGED <<call, ret, desk>>

\* the condition of the playback loop
W_PlayCheck ==
    /\ wpc = "play_check"
    /\ wpc' = IF media_state = "Playing" /\ w_cur < w_total
              THEN "play_tick" ELSE "play_exit"
    /\ UNCHANGED <<media_state, chan, audio_location, files, cpc, c_state, load_stream,
                   load_result, w_cur, w_total, w_path, stream, widgets, op, sess, wfail>>
    /\ UNCHANGED <<call, ret, desk>>

\* the body of the playback loop, after the sleep
W_PlayTick ==
    /\ wpc = "play_tick"
    /\ w_cur' = w_cur + 1
    /\ cur' = w_cur + 1
    /\ media_state' = IF w_cur + 1 = w_total THEN "StoppedPlaying" ELSE media_state
    /\ sess' = [sess EXCEPT !.emitted = Append(@, w_cur + 1)]
    /\ wpc' = "play_check"
    /\ UNCHANGED <<chan, audio_location, files, cpc, c_state, load_stream, load_result,
                   w_total, w_path, stream, total, status_bar, play_label, play_active,
                   stop_active, record_active, open_active, op, wfail>>
    /\ UNCHANGED <<call, ret, desk>>

\* after the playback loop: the widgets by the state read, then _audio is dropped
W_PlayExit ==
    /\ wpc = "play_exit"
    /\ IF media_state = "Paused"
       THEN /\ play_label' = "Play"
            /\ UNCHANGED <<record_active, stop_active, open_active, cur>>
       ELSE IF media_state = "StoppedPlaying"
       THEN /\ play_label' = "Play"
            /\ record_active' = TRUE
            /\ stop_active' = FALSE
            /\ open_active' = TRUE
            /\ cur' = 0
       ELSE UNCHANGED <<play_label, record_active, stop_active, open_active, cur>>
    /\ stream' = "none"
    /\ wpc' = "recv"
    /\ w_cur' = 0
    /\ w_total' = 0
    /\ w_path' = NoPath
    /\ sess' = [sess EXCEPT !.done = TRUE]
    /\ UNCHANGED <<media_state, chan, audio_location, files, cpc, c_state, load_stream,
                   load_result, total, status_bar, play_active, op, wfail>>
    /\ UNCHANGED <<call, ret, desk>>

\* SenderMessages::Record: from the receipt to the entry of the loop
W_Record(dev) ==
    /\ Receives("Record")
    /\ chan' = Tail(chan)
    /\ open_active' = FALSE
    /\ play_active' = FALSE
    /\ stop_active' = TRUE
    /\ record_active' = FALSE
    /\ sess' = [NoSess EXCEPT !.kind = "rec", !.opened = (dev = "ok")]
    /\ CASE dev = "panic" ->
            \* to_device() or config() finds no input device or configuration
            /\ wpc' = "panicked"
            /\ wfail' = "DeviceUnavailable"
            /\ UNCHANGED <<files, stream, w_path>>
         [] dev = "err_create" ->
            \* WavWriter::create fails: continue
            /\ wpc' = "recv"
            /\ wfail' = "RecordSetup"
            /\ UNCHANGED <<files, stream, w_path>>
         [] dev = "err_build" ->
            \* build_input_stream fails after the file was created: continue
            /\ wpc' = "recv"
            /\ wfail' = "RecordSetup"
            /\ files' = [files EXCEPT ![Head(chan).path] = WavFile(0, ClipRate)]
            /\ UNCHANGED <<stream, w_path>>
         [] dev = "ok" ->
            /\ wpc' = "rec_check"
            /\ wfail' = "none"
            /\ stream' = "rec"
            /\ w_path' = Head(chan).path
            /\ files' = [files EXCEPT ![Head(chan).path] = WavFile(0, ClipRate)]
    /\ w_cur' = 0
    /\ UNCHANGED <<media_state, audio_location, cpc, c_state, load_stream, load_result,
                   w_total, cur, total, status_bar, play_label, op>>
    /\ UNCHANGED <<call, ret, desk>>

\* the condition of the recording loop
W_RecCheck ==
    /\ wpc = "rec_check"
    /\ IF media_state = "Recording"
       THEN w_cur < MaxSecs /\ wpc' = "rec_tick"
       ELSE wpc' = "rec_exit"
    /\ UNCHANGED <<media_state, chan, audio_location, files, cpc, c_state, load_stream,
                   load_result, w_cur, w_total, w_path, stream, widgets, op, sess, wfail>>
    /\ UNCHANGED <<call, ret, desk>>

\* the body of the recording loop, after the sleep
W_RecTick ==
    /\ wpc = "rec_tick"
    /\ w_cur' = w_cur + 1
    /\ cur' = w_cur + 1
    /\ total' = w_cur + 1
    /\ sess' = [sess EXCEPT !.emitted = Append(@, w_cur + 1)]
    /\ wpc' = "rec_check"
    /\ UNCHANGED <<media_state, chan, audio_location, files, cpc, c_state, load_stream,
                   load_result, w_total, w_path, stream, status_bar, play_label,
                   play_active, stop_active, record_active, open_active, op, wfail>>
    /\ UNCHANGED <<call, ret, desk>>

\* after the recording loop: the assertion, the widgets, then the stream is
\* dropped and the writer finalizes the file; extra is what the input callback
\* wrote beyond the whole ticks
W_RecExit(extra) ==
    /\ wpc = "rec_exit"
    /\ files' = [files EXCEPT ![w_path] = WavFile(w_cur * ClipRate + extra, ClipRate)]
    /\ stream' = "none"
    /\ IF media_state = "StoppedRecording"
       THEN /\ wpc' = "recv"
            /\ open_active' = TRUE
            /\ play_active' = TRUE
            /\ stop_active' = FALSE
            /\ record_active' = TRUE
            /\ status_bar' = w_path
            /\ cur' = 0
            /\ wfail' = "none"
       ELSE \* assert!(current_state == MediaStates::StoppedRecording)
            /\ wpc' = "panicked"
            /\ wfail' = "assert"
            /\ UNCHANGED <<open_active, play_active, stop_active, record_active,
                           status_bar, cur>>
    /\ w_cur' = 0
    /\ w_path' = NoPath
    /\ sess' = [sess EXCEPT !.done = TRUE, !.total = w_cur]
    /\ UNCHANGED <<media_state, chan, audio_location, cpc, c_state, load_stream,
                   load_result, w_total, total, play_label, op>>
    /\ UNCHANGED <<call, ret, desk>>

\* SenderMessages::PauseAt
W_PauseAt ==
    /\ Receives("PauseAt")
    /\ chan' = Tail(chan)
    /\ cur' = Head(chan).n
    /\ wfail' = "none"
    /\ UNCHANGED <<media_state, audio_location, files, cpc, c_state, load_stream,
                   load_result, wpc, w_cur, w_total, w_path, stream, total, status_bar,
                   play_label, play_active, stop_active, record_active, open_active,
                   op, sess>>
    /\ UNCHANGED <<call, ret, desk>>

\* SenderMessages::StopIfPaused
W_StopIfPaused ==
    /\ Receives("StopIfPaused")
    /\ chan' = Tail(chan)
    /\ play_label' = "Play"
    /\ record_active' = TRUE
    /\ stop_active' = FALSE
    /\ open_active' = TRUE
    /\ cur' = 0
    /\ wfail' = "none"
    /\ UNCHANGED <<media_state, audio_location, files, cpc, c_state, load_stream,
                   load_result, wpc, w_cur, w_total, w_path, stream, total, status_bar,
                   play_active, op, sess>>
    /\ UNCHANGED <<call, ret, desk>>

\* SenderMessages::Load
W_Load ==
    /\ Receives("Load")
    /\ chan' = Tail(chan)
    /\ status_bar' = NoPath
    /\ cur' = 0
    /\ total' = Head(chan).n
    /\ play_active' = TRUE
    /\ stop_active' = FALSE
    /\ record_active' = TRUE
    /\ wfail' = "none"
    /\ UNCHANGED <<media_state, audio_location, files, cpc, c_state, load_stream,
                   load_result, wpc, w_cur, w_total, w_path, stream, play_label,
                   open_active, op, sess>>
    /\ UNCHANGED <<call, ret, desk>>

\* SenderMessages::Clear
W_Clear ==
    /\ Receives("Clear")
    /\ chan' = Tail(chan)
    /\ total' = 0
    /\ status_bar' = NoPath
    /\ play_active' = FALSE
    /\ stop_active' = FALSE
    /\ record_active' = TRUE
    /\ wfail' = "none"
    /\ UNCHANGED <<media_state, audio_location, files, cpc, c_state, load_stream,
                   load_result, wpc, w_cur, w_total, w_path, stream, cur, play_label,
                   open_active, op, sess>>
    /\ UNCHANGED <<call, ret, desk>>

Worker ==
    \/ \E d \in OutputOutcomes : W_Play(d)
    \/ W_PlayCheck
    \/ W_PlayTick
    \/ W_PlayExit
    \/ \E d \in InputOutcomes : W_Record(d)
    \/ W_RecCheck
    \/ W_RecTick
    \/ \E x \in 0..1 : W_RecExit(x)
    \/ W_PauseAt
    \/ W_StopIfPaused
    \/ W_Load
    \/ W_Clear

Next == Caller \/ Worker

Spec == Init /\ [][Next]_vars

\* ---------------------------------------- the device and file functions
\* each function is called once, on arguments drawn when the behaviour starts
Builds == {"debug", "release"}
DesiredRates == {16000, 44100, 96000}

ConfigCalls ==
    [fn : {"config", "device_config_from_sample_and_channels"},
     configs : Devices, sample_rate : DesiredRates, channels : {1, 2}]
SampleRatesCalls == [fn : {"sample_rates"}, configs : Devices]
WavSpecCalls ==
    [fn : {"wav_spec_from_config"},
     config : [channels : {1, 2}, sample_rate : DesiredRates, fmt : SampleFormats]]
OutputStreamCalls ==
    [fn : {"output_stream_from"}, build : Builds, dev : OutputOutcomes,
     pos : 0..(Word - 1),
     file : {NoFile} \cup {WavFile(n, ClipRate) : n \in 0..(MaxSecs * ClipRate)}]
LoadChunksCalls ==
    [fn : {"load_chunks", "english_load_chunks"}, text : Texts]
\* durations around the minute, the hour and the day
ClockSecs == {0, 1, 59, 60, 61, 3599, 3600, 3661, 86399}
ClockCalls ==
    [fn : {"to_hh_mm_ss_str"}, secs : ClockSecs]
    \cup [fn : {"to_hh_mm_ss_str_ms"}, ms : {1000 * t + r : t \in ClockSecs, r \in {0, 999}}]
GotoCalls ==
    [fn : {"get_paragraph_num"}, closed_by : {"goto", "cancel", "close"},
     entry : Entries, max : 0..MaxParagraphs]
SessionCalls ==
    [fn : {"save_load"}, text_file : ProjectNames, session : Sessions, disk : Disks]
\* the Preferences dialog on a device: the rate and the channel count picked
ChoiceCalls ==
    [fn : {"save_audio_preferences"}, configs : Devices,
     sample_rate : {SUPPORTED_SAMPLE_RATES[i] : i \in DOMAIN SUPPORTED_SAMPLE_RATES},
     channels : {1, 2}]
Calls == ClockCalls \cup ChoiceCalls \cup GotoCalls \cup SessionCalls \cup ConfigCalls \cup SampleRatesCalls \cup WavSpecCalls \cup OutputStreamCalls
         \cup LoadChunksCalls

InitCalls ==
    /\ MediaNew
    /\ files = [p \in Paths |-> NoFile]
    /\ call \in Calls
    /\ ret = NoRet
    /\ DeskNew

Pending(fn) == call.fn = fn /\ ret = NoRet

Call_config ==
    /\ Pending("config")
    /\ ret' = config(call.configs, call.sample_rate, call.channels)
    /\ UNCHANGED <<transport, call, desk>>

Call_device_config ==
    /\ Pending("device_config_from_sample_and_channels")
    /\ ret' = device_config_from_sample_and_channels(call.configs, call.sample_rate,
                                                     call.channels)
    /\ UNCHANGED <<transport, call, desk>>

Call_sample_rates ==
    /\ Pending("sample_rates")
    /\ ret' = [ok |-> TRUE, err |-> "none", rates |-> sample_rates(call.configs)]
    /\ UNCHANGED <<transport, call, desk>>

Call_wav_spec ==
    /\ Pending("wav_spec_from_config")
    /\ ret' = wav_spec_from_config(call.config)
    /\ UNCHANGED <<transport, call, desk>>

Call_output_stream ==
    /\ Pending("output_stream_from")
    /\ ret' = output_stream_from_built(call.build, call.dev, call.pos, call.file)
    /\ UNCHANGED <<transport, call, desk>>

\* what load_chunks returns and what get_chunk then returns for every index
\* up to one past the end
Loaded(paragraphs) ==
    [ok |-> TRUE, err |-> "none", count |-> Len(paragraphs),
     chunk |-> [i \in 0..(Len(paragraphs) + 1) |-> get_chunk(paragraphs, i)]]

Call_load_chunks ==
    /\ Pending("load_chunks")
    /\ ret' = Loaded(load_chunks(call.text))
    /\ UNCHANGED <<transport, call, desk>>

Call_english_load_chunks ==
    /\ Pending("english_load_chunks")
    /\ ret' = Loaded(english_load_chunks(<<>>, <<>>, 0, call.text))
    /\ UNCHANGED <<transport, call, desk>>

Call_to_hh_mm_ss_str ==
    /\ Pending("to_hh_mm_ss_str")
    /\ ret' = [ok |-> TRUE, err |-> "none", str |-> to_hh_mm_ss_str(call.secs)]
    /\ UNCHANGED <<transport, call, desk>>

Call_to_hh_mm_ss_str_ms ==
    /\ Pending("to_hh_mm_ss_str_ms")
    /\ ret' = [ok |-> TRUE, err |-> "none", str |-> to_hh_mm_ss_str_ms(call.ms)]
    /\ UNCHANGED <<transport, call, desk>>

Call_get_paragraph_num ==
    /\ Pending("get_paragraph_num")
    /\ ret' = [ok |-> TRUE, err |-> "none",
               num |-> get_paragraph_num(call.closed_by, call.entry, call.max)]
    /\ UNCHANGED <<transport, call, desk>>

\* session.save() followed by Session::load(text_file)
Call_save_load ==
    /\ Pending("save_load")
    /\ ret' = [ok |-> TRUE, err |-> "none",
               session |-> load(call.text_file, save(call.session, disk_of(call.disk)))]
    /\ UNCHANGED <<transport, call, desk>>

\* populate_audio_tab_inputs, save_audio_preferences with the values picked,
\* then AudioInput::config as the Record handler calls it
Call_save_audio_preferences ==
    /\ Pending("save_audio_preferences")
    /\ ret' = [ok |-> TRUE, err |-> "none",
               sample_rates |-> sample_rates(call.configs),
               channels |-> AudioInput_channels(call.configs),
               config |-> config(call.configs, call.sample_rate, call.channels)]
    /\ UNCHANGED <<transport, call, desk>>

NextCalls ==
    \/ Call_save_audio_preferences
    \/ Call_save_load
    \/ Call_get_paragraph_num
    \/ Call_to_hh_mm_ss_str
    \/ Call_to_hh_mm_ss_str_ms
    \/ Call_load_chunks
    \/ Call_english_load_chunks
    \/ Call_config
    \/ Call_device_config
    \/ Call_sample_rates
    \/ Call_wav_spec
    \/ Call_output_stream

CallSpec == InitCalls /\ [][NextCalls]_vars

\* ------------------------------------------------ the player on its own
\* what the output device does with the call
PlayerDevs == {"ok", "build_fails", "play_fails", "pause_fails"}

\* the call as the history keeps it: resumed tells a play that found a stream,
\* was_paused that the stream was paused
Made(fn, file, pos, out) ==
    [fn |-> fn, file |-> file, pos |-> pos, r |-> out.r,
     resumed |-> player.output_stream # "none",
     was_paused |-> player.stream_paused,
     paused_at |-> player.output_paused_pos_ms,
     after_stop |-> last.fn = "stop"]

Player_play(dev, file) ==
    /\ ~player.panicked
    /\ player' = play(player, dev, file).p
    /\ last' = Made("play", file, 0, play(player, dev, file))
    /\ UNCHANGED <<transport, call, ret, viewer, session, projects, nav>>

Player_play_at(dev, file, audio_pos_ms) ==
    /\ ~player.panicked
    /\ player' = play_at(player, dev, file, audio_pos_ms).p
    /\ last' = Made("play_at", file, audio_pos_ms, play_at(player, dev, file, audio_pos_ms))
    /\ UNCHANGED <<transport, call, ret, viewer, session, projects, nav>>

Player_pause(dev, paused_loc_ms) ==
    /\ ~player.panicked
    /\ player' = pause(player, dev, paused_loc_ms).p
    /\ last' = Made("pause", NoFile, paused_loc_ms, pause(player, dev, paused_loc_ms))
    /\ UNCHANGED <<transport, call, ret, viewer, session, projects, nav>>

Player_stop ==
    /\ ~player.panicked
    /\ player' = stop(player)
    /\ last' = Made("stop", NoFile, 0, Returns(player, 0))
    /\ UNCHANGED <<transport, call, ret, viewer, session, projects, nav>>

InitPlayer ==
    /\ MediaNew /\ files = [p \in Paths |-> NoFile]
    /\ call = NoCall /\ ret = NoRet
    /\ viewer = ViewerNew /\ session = NoSession
    /\ player \in {PlayerNew(b) : b \in Builds} /\ last = NoLast
    /\ projects = NoProjects /\ nav = NoNav

NextPlayer ==
    \/ \E dev \in PlayerDevs, file \in PlayerClips : Player_play(dev, file)
    \/ \E dev \in PlayerDevs, file \in PlayerClips, pos \in PositionsMs :
            Player_play_at(dev, file, pos)
    \/ \E dev \in PlayerDevs, pos \in PositionsMs : Player_pause(dev, pos)
    \/ Player_stop

PlayerSpec == InitPlayer /\ [][NextPlayer]_vars

\* ------------------------------------------------ the viewer on its own
\* the request as the history keeps it: the paragraph asked for, and the
\* paragraph number and text shown before
Asked(fn, target) ==
    [fn |-> fn, target |-> target, num |-> viewer.paragraph_num, text |-> viewer.text]

Viewer_load_paragraphs(text, amount) ==
    /\ viewer' = load_paragraphs(viewer, text, LangDelimiters, amount)
    /\ nav' = Asked("load_paragraphs", 0)
    /\ UNCHANGED <<transport, call, ret, session, player, last, projects>>

Viewer_reload_text_with(amount) ==
    /\ viewer' = reload_text_with(viewer, LangDelimiters, amount)
    /\ nav' = Asked("reload_text_with", 0)
    /\ UNCHANGED <<transport, call, ret, session, player, last, projects>>

Viewer_show_next_paragraph ==
    /\ viewer' = show_next_paragraph(viewer)
    /\ nav' = Asked("show_next_paragraph", viewer.paragraph_num + 1)
    /\ UNCHANGED <<transport, call, ret, session, player, last, projects>>

Viewer_show_previous_paragraph ==
    /\ viewer' = show_previous_paragraph(viewer)
    /\ nav' = Asked("show_previous_paragraph", viewer.paragraph_num - 1)
    /\ UNCHANGED <<transport, call, ret, session, player, last, projects>>

Viewer_show_paragraph_at(paragraph_num) ==
    /\ viewer' = show_paragraph_at(viewer, paragraph_num)
    /\ nav' = Asked("show_paragraph_at", paragraph_num)
    /\ UNCHANGED <<transport, call, ret, session, player, last, projects>>

InitViewer ==
    /\ MediaNew /\ files = [p \in Paths |-> NoFile]
    /\ call = NoCall /\ ret = NoRet
    /\ DeskNew

NextViewer ==
    \/ \E text \in NavTexts, amount \in GatheringAmounts : Viewer_load_paragraphs(text, amount)
    \/ \E amount \in GatheringAmounts : Viewer_reload_text_with(amount)
    \/ Viewer_show_next_paragraph
    \/ Viewer_show_previous_paragraph
    \/ \E n \in 0..MaxParagraphs : Viewer_show_paragraph_at(n)

ViewerSpec == InitViewer /\ [][NextViewer]_vars

\* --------------------------------------------------- the main event loop
\* Media::load as one call; len: the duration output_stream_from reads from
\* the clip at the path, NoPos when it cannot be opened
Media_load(path, len) ==
    /\ cpc = "ready"
    /\ Len(chan) < MaxQueue
    /\ audio_location' = path
    /\ Send(IF len # NoPos THEN LoadMsg(len) ELSE ClearMsg)
    /\ op' = Did("load", media_state, NoPos)
    /\ sess' = Disturb(FALSE)
    /\ UNCHANGED <<media_state, files, c_state, load_stream, load_result, wpc, w_cur,
                   w_total, w_path, stream, widgets, wfail>>

ClipLengths == {NoPos, MaxSecs}

\* what is typed into the Go To prompt: nothing, a digit, a minus sign
NavEntries == {e \in Entries : Len(e.digits) <= 1 /\ e.sign # "+"}

\* what Preferences is saved with
PreferredDirs == {<<"mnt", "tales">>}
PreferredAmounts == {1, num_sentences}

\* the navigation as the history keeps it
Went(fn) == [fn |-> fn]

\* MainApplication::load_audio_file for the session s and the viewer v
load_audio_file(s, v, len) ==
    Media_load(join(project_directory(s), part_name(v.paragraph_num)), len)

\* UIActions::Next, sent by the next button while it is active
UI_Next(len) ==
    /\ viewer.next_active
    /\ session.some
    /\ viewer' = show_next_paragraph(viewer)
    /\ load_audio_file(session.value, viewer', len)
    /\ nav' = Went("Next")
    /\ UNCHANGED <<call, ret, session, player, last, projects>>

\* UIActions::Previous, sent by the previous button while it is active
UI_Previous(len) ==
    /\ viewer.prev_active
    /\ session.some
    /\ viewer' = show_previous_paragraph(viewer)
    /\ load_audio_file(session.value, viewer', len)
    /\ nav' = Went("Previous")
    /\ UNCHANGED <<call, ret, session, player, last, projects>>

\* UIActions::OpenGoto with a prompt that yields a paragraph
UI_OpenGoto(entry, len) ==
    LET chosen == get_paragraph_num("goto", entry, Len(viewer.paragraphs)) IN
    /\ chosen.some
    /\ session.some
    /\ viewer' = show_paragraph_at(viewer, chosen.value - 1)
    /\ load_audio_file(session.value, viewer', len)
    /\ nav' = Went("OpenGoto")
    /\ UNCHANGED <<call, ret, session, player, last, projects>>

\* UIActions::OpenGoto with a prompt that yields None
UI_OpenGotoNone(closed_by, entry) ==
    /\ ~get_paragraph_num(closed_by, entry, Len(viewer.paragraphs)).some
    /\ nav' = Went("OpenGoto")
    /\ UNCHANGED <<transport, call, ret, viewer, session, player, last, projects>>

\* MainApplication::load_text_file: the session files after the old session
\* was saved, and the session of the text file
saved_projects ==
    IF session.some
    THEN save([session.value EXCEPT !.paragraph_num = viewer.paragraph_num], projects)
    ELSE projects
session_of(stem) ==
    IF load(stem, saved_projects).some THEN load(stem, saved_projects).value
    ELSE Session_new(stem)

\* UIActions::LoadFile with a text file chosen: its stem and its content
UI_LoadFile(stem, text, len) ==
    /\ projects' = saved_projects
    /\ session' = Some(session_of(stem))
    /\ viewer' = show_paragraph_at(
                     load_paragraphs(viewer, text, gathering_delimiters(session_of(stem)),
                                     gathering_amount(session_of(stem))),
                     session_of(stem).paragraph_num)
    /\ load_audio_file(session_of(stem), viewer', len)
    /\ nav' = Went("LoadFile")
    /\ UNCHANGED <<call, ret, player, last>>

\* PreferencesDialog::show: nothing when the dialog was not saved
preferred(s, saved, dir, amount) ==
    IF saved THEN [s EXCEPT !.project_directory = dir, !.gathering_amount = amount] ELSE s

\* UIActions::OpenPreferences while a session is open
UI_OpenPreferences(saved, dir, amount, len) ==
    /\ session.some
    /\ session' = Some(preferred(session.value, saved, dir, amount))
    /\ viewer' = reload_text_with(viewer, gathering_delimiters(session'.value),
                                  gathering_amount(session'.value))
    /\ load_audio_file(session'.value, viewer', len)
    /\ nav' = Went("OpenPreferences")
    /\ UNCHANGED <<call, ret, player, last, projects>>

InitNav ==
    /\ MediaNew /\ files = [p \in Paths |-> NoFile]
    /\ call = NoCall /\ ret = NoRet
    /\ DeskNew

NextNav ==
    \/ \E len \in ClipLengths : UI_Next(len)
    \/ \E len \in ClipLengths : UI_Previous(len)
    \/ \E entry \in NavEntries, len \in ClipLengths : UI_OpenGoto(entry, len)
    \/ \E closed_by \in {"goto", "cancel", "close"}, entry \in NavEntries :
            UI_OpenGotoNone(closed_by, entry)
    \/ \E stem \in ProjectNames, text \in NavTexts, len \in ClipLengths :
            UI_LoadFile(stem, text, len)
    \/ \E saved \in BOOLEAN, dir \in PreferredDirs, amount \in PreferredAmounts,
          len \in ClipLengths : UI_OpenPreferences(saved, dir, amount, len)
    \/ W_Load
    \/ W_Clear

NavSpec == InitNav /\ [][NextNav]_vars

TypeOK ==
    /\ media_state \in MediaStates
    /\ Len(chan) <= MaxQueue
    /\ stream \in {"none", "play", "rec"}
    /\ load_stream \in BOOLEAN

\* ------------------------------------------------------------------ claims
IdleOrPaused == Idle \cup {"Paused"}
Ticks(from, to) == [i \in 1..(to - from) |-> from + i]

\* C1: at most one audio stream is open at any time, whatever the caller does:
\* the stream Media::load opens never coexists with a session's stream.
C1_AtMostOneStream == ~(stream # "none" /\ load_stream)

\* C2: whenever media_state reads StoppedPlaying, StoppedRecording or Paused,
\* the worker holds no open stream.
C2_NoStreamWhenIdleOrPaused == media_state \in IdleOrPaused => stream = "none"

\* C3: a playback session started at p <= T that the caller leaves alone has,
\* when it ends, emitted the positions p+1..T, the state is StoppedPlaying and
\* the position is back at 0.
C3_PlaysToCompletion ==
    (sess.kind = "play" /\ sess.opened /\ sess.done /\ sess.undisturbed
        /\ sess.start <= sess.total)
    => /\ media_state = "StoppedPlaying"
       /\ cur = 0
       /\ sess.emitted = Ticks(sess.start, sess.total)

\* C4: once stop() or a pause was issued while a playback session was running,
\* the next state check of the playback loop leaves the loop.
C4_CancelObservedAtNextCheck ==
    [][(wpc = "play_check" /\ sess.cancelled) => wpc' # "play_tick"]_vars

C7_StopWhenIdleIsNoOp ==
    [][C_Stop => /\ media_state' \in Idle
                 /\ media_state \in Idle =>
                        UNCHANGED <<media_state, chan, cpc, widgets, wfail>>]_vars

\* stop() was issued in an idle state
C7_Witness == op.name = "stop" /\ op.pre \in Idle

\* C8: when the Play handler finds the start position beyond the end of the
\* clip, no stream is open and the state is the one before the play request.
C8_StartBeyondEndKeepsState ==
    (wfail = "StartBeyondEnd" /\ op.name = "play" /\ chan = <<>>)
    => stream = "none" /\ media_state = op.pre

\* C9: when the Record handler cannot set up the recording stream, no stream
\* is open and the state is idle.
C9_RecordFailureStaysIdle ==
    (sess.kind = "rec" /\ wfail \in {"RecordSetup", "DeviceUnavailable"}
        /\ op.name = "record" /\ op.pre \in Idle /\ chan = <<>>)
    => stream = "none" /\ media_state \in Idle

\* C10: a play() with no clip location set, or with a location whose file
\* cannot be opened, starts no stream and leaves the state idle.
C10_PlayWithoutClipStaysIdle ==
    (op.name = "play" /\ op.pre \in Idle /\ chan = <<>>
        /\ \/ cpc = "panicked" /\ audio_location = NoPath
           \/ wfail = "NoClipLoaded")
    => stream = "none" /\ media_state \in Idle

C12_NoProgressAfterCancel ==
    [][(sess.cancelled /\ ~sess.done) => sess'.emitted = sess.emitted]_vars

NextPos(s) == IF s.emitted = <<>> THEN s.start + 1 ELSE s.emitted[Len(s.emitted)] + 1

\* C13: the progress updates of a session are delivered in the order emitted,
\* each one position after the one before, and the worker starts a session
\* only when the session before it has left its loop, so that no update of a
\* replaced session follows the start of the session that replaced it.
C13_SessionEventsInOrder ==
    [][/\ ((\E d \in OutputOutcomes : W_Play(d)) \/ (\E d \in InputOutcomes : W_Record(d)))
           => (sess.kind = "none" \/ sess.done \/ ~sess.opened)
       /\ (W_PlayTick \/ W_RecTick)
           => /\ ~sess.done
              /\ sess.kind = (IF W_PlayTick THEN "play" ELSE "rec")
              /\ sess'.emitted = Append(sess.emitted, NextPos(sess))]_vars

\* a playback session that replaced a finished recording session has
\* delivered a progress update
C13_Witness ==
    /\ sess.kind = "play" /\ sess.opened /\ ~sess.done
    /\ Len(sess.emitted) >= 1
    /\ status_bar # NoPath

\* C14: whenever the worker leaves the recording loop the state reads
\* StoppedRecording: the assertion at the end of the Record handler never
\* fails, whatever the caller does.
C14_RecordEndsStopped == wfail # "assert"

\* C15: when the Record handler ends a session that was stopped, the total
\* duration shown equals the last elapsed value of the recording loop, the
\* position is reset to 0 and the notification names the recorded file.
C15_RecordingStopOutcome ==
    [][\A x \in 0..1 :
          (W_RecExit(x) /\ media_state = "StoppedRecording")
          => total' = w_cur /\ cur' = 0 /\ status_bar' = w_path]_vars

\* C16: in every reachable state the elapsed position shown is at most the
\* total duration shown.
C16_ElapsedAtMostTotal == cur <= total

Returned(fn) == call.fn = fn /\ ret # NoRet

\* C17: when the device advertises a configuration with the desired channel
\* count, resolving the input configuration returns one with that channel
\* count, made from the first such entry in enumeration order; when it
\* advertises none, the result is an error and not a panic.
C17_ConfigResolves ==
    (Returned("config") \/ Returned("device_config_from_sample_and_channels"))
    => LET first == find({k \in DOMAIN call.configs :
                                  call.configs[k].channels = call.channels}) IN
       IF first # 0
       THEN ret.ok /\ ret.channels = call.channels /\ ret.from = first
       ELSE ~ret.ok /\ ret.err # "panic"

\* C18: the sample rates reported for a device are the candidates 16000,
\* 32000, 44100, 48000, 88200, 96000 that lie in the [min, max] range of at
\* least one supported configuration, without duplicates in ascending order.
C18_SampleRatesListed ==
    Returned("sample_rates")
    => /\ {ret.rates[i] : i \in DOMAIN ret.rates}
            = {r \in {16000, 32000, 44100, 48000, 88200, 96000} :
                  \E i \in DOMAIN call.configs :
                      call.configs[i].range[1] <= r /\ r <= call.configs[i].range[2]}
       /\ \A i \in 1..(Len(ret.rates) - 1) : ret.rates[i] < ret.rates[i + 1]

\* two configurations with overlapping ranges, the second one starting lower:
\* the pushed candidates were neither ascending nor free of duplicates
C18_Witness ==
    /\ Returned("sample_rates")
    /\ Len(call.configs) = 2
    /\ Len(ret.rates) >= 2
    /\ Len(found_sample_rates(call.configs)) > Len(ret.rates)
    /\ found_sample_rates(call.configs) # sort_unstable(found_sample_rates(call.configs))

\* C19: the WAV spec derived for a recording has (32 bits, Float) for F32 and
\* (16 bits, Int) for I16 and U16, the channel count and sample rate of the
\* stream configuration, and is a format playback accepts.
C19_WavSpecPlayable ==
    (Returned("wav_spec_from_config") /\ call.config.fmt \in {"F32", "I16", "U16"})
    => /\ ret.ok
       /\ <<ret.bits_per_sample, ret.sample_format>>
            = (IF call.config.fmt = "F32" THEN <<32, "Float">> ELSE <<16, "Int">>)
       /\ ret.channels = call.config.channels
       /\ ret.sample_rate = call.config.sample_rate
       /\ playback_accepts(ret.bits_per_sample, ret.sample_format)

\* the spec of a recording from a device with unsigned 16 bit samples
C19_Witness ==
    /\ Returned("wav_spec_from_config")
    /\ call.config.fmt = "U16"
    /\ ret.ok

\* C20: for every start position whose true product with the sample rate
\* exceeds the number of samples of the clip, output_stream_from returns the
\* out-of-range error and does not seek, also when the product does not fit
\* the unsigned word.
C20_StartBoundNeverWraps ==
    (Returned("output_stream_from") /\ call.file.exists
        /\ call.pos * call.file.rate > call.file.samples)
    => ret.err = "StartBeyondEnd" /\ ret.seek = NoPos

Delimiters(text) == Len(SelectSeq(text, LAMBDA c : c \in {".", "?", "!"}))
EndsSentence(text) == text # <<>> /\ text[Len(text)] \in {".", "?", "!"}
\* the sentences of a chunk: its delimiters, and its unterminated tail if any
Pieces(text) == Delimiters(text) + (IF text = <<>> \/ EndsSentence(text) THEN 0 ELSE 1)
Chunk(i) == ret.chunk[i - 1].value

\* C29: load_chunks on a new retriever returns the number of chunks; every
\* chunk but the last holds exactly four sentences, each ended by '.', '?' or
\* '!', the last chunk holds the 1 to 4 remaining pieces; get_chunk(i) is the
\* i-th chunk for i below that number and None otherwise; the chunks
\* concatenated are the text.
C29_ChunksOfFourSentences ==
    (Returned("load_chunks") \/ Returned("english_load_chunks"))
    => /\ \A i \in 0..(ret.count + 1) : ret.chunk[i].some <=> i < ret.count
       /\ concat([i \in 1..ret.count |-> Chunk(i)]) = call.text
       /\ \A i \in 1..ret.count :
             /\ Pieces(Chunk(i)) \in 1..4
             /\ i < ret.count => Delimiters(Chunk(i)) = 4 /\ EndsSentence(Chunk(i))

\* a text of a full chunk and an unterminated tail
C29_Witness ==
    /\ Returned("english_load_chunks")
    /\ ret.count = 2
    /\ ~EndsSentence(call.text)

\* C30: to_hh_mm_ss_str renders s whole seconds (s = ms div 1000 for the
\* millisecond variants) as HH:MM:SS, zero-padded, with SS = s mod 60,
\* MM = (s div 60) mod 60 and HH = s div 3600.
C30_ClockRendersDuration ==
    (Returned("to_hh_mm_ss_str") \/ Returned("to_hh_mm_ss_str_ms"))
    => LET s == IF call.fn = "to_hh_mm_ss_str" THEN call.secs ELSE call.ms \div 1000 IN
       ret.str = hh_mm_ss(s \div 3600, (s \div 60) % 60, s % 60)

\* the number entered: 0 when the entry is not a number usize can hold
Entered(entry) ==
    IF entry.sign # "-" /\ entry.digits # <<>> /\ decimal(entry.digits) < Word
    THEN decimal(entry.digits) ELSE 0

\* C27: get_paragraph_num returns None when the prompt was cancelled or
\* max_num_paragraphs is 0; otherwise Some(n) with 1 <= n <= max_num_paragraphs,
\* n being the entered number brought into that range, 1 for an entry that
\* does not parse.
C27_GotoNumberClamped ==
    Returned("get_paragraph_num")
    => IF call.closed_by # "goto" \/ call.max = 0
       THEN ~ret.num.some
       ELSE /\ ret.num.some
            /\ ret.num.value \in 1..call.max
            /\ LET n == Entered(call.entry) IN
                /\ n \in 1..call.max => ret.num.value = n
                /\ n > call.max => ret.num.value = call.max
                /\ n < 1 => ret.num.value = 1

\* an entry above the number of paragraphs was brought down to it
C27_Witness ==
    /\ Returned("get_paragraph_num")
    /\ call.closed_by = "goto"
    /\ Entered(call.entry) > call.max
    /\ ret.num = Some(call.max)

\* C28: after save(), Session::load of the session's text file returns a
\* session equal to the saved one, whatever its paragraph number and project
\* directory.
C28_SessionRoundTrip ==
    Returned("save_load") => ret.session = Some(call.session)

\* C23: play and play_at return the milliseconds left to play, the duration of
\* the clip being played minus the position playback starts or resumes from
\* (the play_at argument, the position of the pause being resumed, 0 for a
\* fresh stream), and the subtraction never underflows.
C23_PlayReturnsTimeLeft ==
    last.fn \in {"play", "play_at"}
    => /\ last.r.err # "underflow"
       /\ last.r.ok => last.r.value >= 0
       /\ (last.r.ok /\ (last.fn = "play_at" \/ ~last.resumed \/ last.was_paused))
            => last.r.value = player.stream_total -
                 (IF last.fn = "play_at" THEN last.pos
                  ELSE IF last.resumed THEN last.paused_at ELSE 0)

\* C24: a play() that follows stop() builds a stream that starts at sample 0
\* and returns the whole duration of the clip it was given, whatever was
\* paused or skipped before the stop.
C24_PlayAfterStopIsFresh ==
    (last.fn = "play" /\ last.after_stop /\ last.r.ok)
    => /\ ~last.resumed
       /\ player.stream_from = 0
       /\ last.r.value = duration_secs(last.file.samples, last.file.rate) * 1000

\* a clip was skipped into, paused, stopped, and played again in full
C24_Witness ==
    /\ last.fn = "play" /\ last.after_stop /\ last.r.ok
    /\ last.paused_at = 0
    /\ last.r.value = MaxSecs * 1000

\* the paragraph asked for does not exist
NoSuchParagraph == nav.target \notin 0..(Len(viewer.paragraphs) - 1)
ShowRequests == {"show_next_paragraph", "show_previous_paragraph", "show_paragraph_at"}

\* C25: a show_paragraph_at, show_next_paragraph or show_previous_paragraph
\* that asks for a paragraph that does not exist leaves paragraph_num and
\* the displayed text as they were.
C25_MissingParagraphChangesNothing ==
    (nav.fn \in ShowRequests /\ NoSuchParagraph)
    => viewer.paragraph_num = nav.num /\ viewer.text = nav.text

\* a Go To past the end of a loaded, shown text was refused
C25_Witness ==
    /\ nav.fn = "show_paragraph_at" /\ NoSuchParagraph
    /\ viewer.paragraphs # <<>> /\ viewer.text # <<>>
    /\ viewer.paragraph_num = nav.num

\* C26: after a successful show_paragraph_at, show_next_paragraph or
\* show_previous_paragraph the Previous button is active exactly when
\* paragraph_num > 0 and the Next button exactly when
\* paragraph_num < num_paragraphs - 1.
C26_NavButtonsFollowPosition ==
    (nav.fn \in ShowRequests /\ ~NoSuchParagraph)
    => /\ viewer.prev_active <=> viewer.paragraph_num > 0
       /\ viewer.next_active <=> viewer.paragraph_num < Len(viewer.paragraphs) - 1

\* a middle paragraph is shown with both buttons active
C26_Witness ==
    /\ nav.fn \in ShowRequests /\ ~NoSuchParagraph
    /\ viewer.paragraph_num > 0 /\ viewer.paragraph_num < Len(viewer.paragraphs) - 1
    /\ viewer.prev_active /\ viewer.next_active

NavActions == {"Next", "Previous", "OpenGoto", "LoadFile", "OpenPreferences"}

\* C21: after every navigation action the clip location of the transport is
\* <project directory>/part<k>.wav, k the viewer's 0-based paragraph number.
C21_ClipFollowsParagraph ==
    (nav.fn \in NavActions /\ session.some)
    => audio_location =
         Append(session.value.project_directory,
                <<"part">> \o digits(viewer.paragraph_num) \o <<".wav">>)

\* the third paragraph is shown in a project folder chosen in Preferences
C21_Witness ==
    /\ nav.fn \in NavActions /\ session.some
    /\ viewer.paragraph_num = 2
    /\ session.value.project_directory[1] = "mnt"
    /\ audio_location = <<"mnt", session.value.project_directory[2], <<"part", 2, ".wav">>>>

C31_CompletionKeepsCallerState ==
    [][(W_PlayTick /\ media_state \in {"Paused", "Recording"})
          => media_state' = media_state]_vars

\* C32: once a clip location has been loaded, whenever the state is Idle and
\* nothing is in progress (no call under way, no pending message, the worker
\* waiting for the next message) Stop is disabled, Record is enabled and the
\* Play button reads "Play".
C32_IdleControls ==
    (/\ audio_location # NoPath
     /\ media_state \in Idle
     /\ cpc = "ready" /\ wpc = "recv" /\ chan = <<>>)
    => ~stop_active /\ record_active /\ play_label = "Play"

\* samples / sample_rate rounded to the nearest whole second, halves upwards
TotalSecs(file) ==
    CHOOSE t \in 0..(file.samples + 1) :
        /\ 2 * t * file.rate - file.rate <= 2 * file.samples
        /\ 2 * file.samples < 2 * t * file.rate + file.rate

\* C33: for every clip, starting from any whole second p with
\* 0 <= p <= total_secs never hits the "Starting position exceeds file
\* time" error.
C33_SliderPositionsStart ==
    (Returned("output_stream_from") /\ call.file.exists
        /\ call.pos <= TotalSecs(call.file))
    => ret.err # "StartBeyondEnd"

Offered(x, list) == \E i \in DOMAIN list : list[i] = x

\* C34: for every input device, every sample rate listed by sample_rates()
\* together with every channel count listed by channels() is accepted by
\* config().
C34_OfferedChoicesResolve ==
    (/\ Returned("save_audio_preferences")
     /\ Offered(call.sample_rate, ret.sample_rates)
     /\ Offered(call.channels, ret.channels))
    => ret.config.ok
====
